---- MODULE Spec2Model ----
(***************************************************************************)
(* Model of the notebook-todo page (src/notebook-todo/src/TodoPage.jsx)   *)
(* and of the authentication gate around it (src/notebook-todo/src/       *)
(* App.jsx).                                                               *)
(*                                                                         *)
(* The page keeps a local copy `todos` of the owner's documents of the     *)
(* remote `todos` collection.  Every handler that writes calls the store   *)
(* (addDoc / updateDoc / deleteDoc) and awaits the call; the local copy    *)
(* is written only by the onSnapshot callback.  A call that was issued     *)
(* and not yet settled is a request in `inflight`; it settles by being     *)
(* applied to `store` or by failing, and the rest of the handler runs      *)
(* when it settles.                                                        *)
(*                                                                         *)
(* Texts are sequences of one-character strings, so that trim(),           *)
(* toLowerCase() and includes() are computed.  A due date is an ISO date   *)
(* string of DateStrings, the empty string, or Null (JavaScript null);     *)
(* `new Date(s)` of such a string is midnight UTC of that day.  Instants   *)
(* are hours since the epoch and `tz` is the offset of local time from UTC *)
(* in hours.                                                               *)
(***************************************************************************)
EXTENDS Integers, Sequences, FiniteSets, Bags, TLC

\* ------------------------------------------------------------------------
\* Bounds of the model
\* ------------------------------------------------------------------------
\* number of document ids the store can ever hand out
MaxIds == 2
\* number of store calls that can be awaiting settlement at once
MaxInflight == 2
\* number of tasks created where every handler of the page takes part
PageTasks == 1
\* number of sign-in / sign-up calls that can be awaiting settlement at once
MaxAttempts == 3

\* ------------------------------------------------------------------------
\* Values
\* ------------------------------------------------------------------------
NoUser == "<none>"
Users == {"u1", "u2"}
Owner == "u1"
Null == "<null>"
Undefined == "<undefined>"
Ids == 1 .. MaxIds

\* <option> values of the priority selects
Priorities == {"high", "medium", "low"}

\* the dates the date inputs can produce, in calendar order
DateStrings == <<"1970-01-02", "1970-01-03", "1970-01-04">>

\* what a user types into the inputs of the add form and the details modal
TextInputs == { <<>>, <<" ">>, <<"a">> }
DueInputs == { "", DateStrings[2] }
NotesInputs == { "", "n" }
\* the texts typed where the other inputs are left alone
TypedTexts == { <<" ">>, <<"a">> }
EditedTexts == { <<>>, <<"a">> }

\* ------------------------------------------------------------------------
\* String functions
\* ------------------------------------------------------------------------
WhiteSpace == { " ", "\t", "\n" }

RECURSIVE TrimStart(_)
TrimStart(s) ==
  IF s # <<>> /\ Head(s) \in WhiteSpace THEN TrimStart(Tail(s)) ELSE s

RECURSIVE TrimEnd(_)
TrimEnd(s) ==
  IF s # <<>> /\ s[Len(s)] \in WhiteSpace
    THEN TrimEnd(SubSeq(s, 1, Len(s) - 1))
    ELSE s

\* String.prototype.trim
Trim(s) == TrimEnd(TrimStart(s))

UpperCase == <<"A","B","C","D","E","F","G","H","I","J","K","L","M",
               "N","O","P","Q","R","S","T","U","V","W","X","Y","Z">>
LowerCase == <<"a","b","c","d","e","f","g","h","i","j","k","l","m",
               "n","o","p","q","r","s","t","u","v","w","x","y","z">>

LowerChar(c) ==
  IF \E i \in 1 .. Len(UpperCase) : UpperCase[i] = c
    THEN LowerCase[CHOOSE i \in 1 .. Len(UpperCase) : UpperCase[i] = c]
    ELSE c

\* String.prototype.toLowerCase
ToLowerCase(s) == [i \in 1 .. Len(s) |-> LowerChar(s[i])]

\* String.prototype.includes
Includes(s, sub) ==
  \E k \in 0 .. (Len(s) - Len(sub)) :
    \A i \in 1 .. Len(sub) : s[k + i] = sub[i]

\* JavaScript truthiness of a string-or-null-or-undefined field
Truthy(v) == v \notin { "", Null, Undefined }

\* obj.field of an object that may lack the field
Get(obj, f) == IF f \in DOMAIN obj THEN obj[f] ELSE Undefined

VARIABLES
  user,            \* AuthProvider: the signed-in user's uid, or NoUser
  mounted,         \* TodoPage is rendered (route /todos behind PrivateRoute)
  sub,             \* uid of the active onSnapshot query, or NoUser
  store,           \* remote collection `todos`: document id -> document
  usedIds,         \* document ids handed out so far
  todos,           \* TodoPage state: local copy of the owner's tasks
  input,           \* add form: text
  dueDate,         \* add form: due date
  priority,        \* add form: priority
  filter,          \* status filter
  priorityFilter,  \* priority filter
  search,          \* search text
  detailsTodo,     \* task open in the details modal (its id), or NoTodo
  detailsFields,   \* fields of the details modal
  showDaySummary,  \* day summary modal is visible
  inflight,        \* bag of store calls issued and not settled
  fd,              \* the running / last handleFinishDay invocation
  cc,              \* the running / last handleClearCompleted invocation
  lastAdd,         \* "returned" when handleAdd returned early on the
                   \* input as it is now, else "none"
  deleted,         \* ids of the documents a deleteDoc call has removed
  now,             \* current instant, hours since the epoch
  tz,              \* local time zone offset from UTC, hours
  route,           \* Router: the path of the page that is rendered
  error,           \* Login / Signup state: the error message, "" when none
  authCalls        \* bag of sign-in / sign-up calls issued and not settled

authVars == <<user, mounted, sub>>
storeVars == <<store, usedIds, deleted>>
formVars == <<input, dueDate, priority>>
filterVars == <<filter, priorityFilter, search>>
detailVars == <<detailsTodo, detailsFields>>
clockVars == <<now, tz>>
loginVars == <<route, error, authCalls>>
\* the state of the TodoPage component, which is all that it renders from
pageVars == <<todos, input, dueDate, priority, filter, priorityFilter, search,
              detailsTodo, detailsFields, showDaySummary>>
vars == <<user, mounted, sub, store, usedIds, todos, input, dueDate, priority,
          filter, priorityFilter, search, detailsTodo, detailsFields,
          showDaySummary, inflight, fd, cc, lastAdd, deleted, now, tz,
         route, error, authCalls>>

\* ------------------------------------------------------------------------
\* Date classifiers
\* ------------------------------------------------------------------------
HoursPerDay == 24

\* new Date("YYYY-MM-DD"): midnight UTC of that day, as hours since the epoch
\* (DateStrings[i] is day i after 1970-01-01)
ParseDate(dateStr) ==
  HoursPerDay * (CHOOSE i \in 1 .. Len(DateStrings) : DateStrings[i] = dateStr)

\* the local calendar day (getFullYear, getMonth, getDate) of an instant
LocalDay(t) == (t + tz) \div HoursPerDay

isToday(dateStr) ==
  IF ~Truthy(dateStr) THEN FALSE
  ELSE LocalDay(ParseDate(dateStr)) = LocalDay(now)

isUpcoming(dateStr) ==
  IF ~Truthy(dateStr) THEN FALSE
  ELSE ParseDate(dateStr) > now

\* an isOverdue that compares the instants only
isOverdueByInstant(dateStr, completed) ==
  IF ~Truthy(dateStr) \/ completed THEN FALSE
  ELSE ParseDate(dateStr) < now

\* an isOverdue that does not look at `completed`
isOverdueAnyStatus(dateStr, completed) ==
  IF ~Truthy(dateStr) THEN FALSE
  ELSE ParseDate(dateStr) < now /\ ~isToday(dateStr)

isOverdue(dateStr, completed) ==
  IF ~Truthy(dateStr) \/ completed THEN FALSE
  ELSE ParseDate(dateStr) < now /\ ~isToday(dateStr)

\* ------------------------------------------------------------------------
\* Filter, search and progress (computed on every render)
\* ------------------------------------------------------------------------
\* a callback whose last line shows the active tasks
FilterPredicateActiveDefault(todo) ==
  IF search # <<>> /\ ~Includes(ToLowerCase(todo.text), ToLowerCase(search))
    THEN FALSE
  ELSE IF priorityFilter # "all" /\ Get(todo, "priority") # priorityFilter
    THEN FALSE
  ELSE IF filter = "active" THEN ~todo.completed
  ELSE IF filter = "completed" THEN todo.completed
  ELSE IF filter = "today" THEN isToday(Get(todo, "dueDate"))
  ELSE IF filter = "upcoming" THEN isUpcoming(Get(todo, "dueDate"))
  ELSE IF filter = "overdue"
    THEN isOverdue(Get(todo, "dueDate"), todo.completed)
  ELSE ~todo.completed

\* toLowerCase() of a priority value
PriorityLowerCase(p) ==
  IF p = "High" THEN "high"
  ELSE IF p = "Medium" THEN "medium"
  ELSE IF p = "Low" THEN "low"
  ELSE p

\* a callback that compares the priorities in lower case
FilterPredicateAnyCase(todo) ==
  IF search # <<>> /\ ~Includes(ToLowerCase(todo.text), ToLowerCase(search))
    THEN FALSE
  ELSE IF priorityFilter # "all"
            /\ PriorityLowerCase(Get(todo, "priority")) # priorityFilter
    THEN FALSE
  ELSE IF filter = "active" THEN ~todo.completed
  ELSE IF filter = "completed" THEN todo.completed
  ELSE IF filter = "today" THEN isToday(Get(todo, "dueDate"))
  ELSE IF filter = "upcoming" THEN isUpcoming(Get(todo, "dueDate"))
  ELSE IF filter = "overdue"
    THEN isOverdue(Get(todo, "dueDate"), todo.completed)
  ELSE TRUE

\* a callback that searches without toLowerCase()
FilterPredicateCaseSensitive(todo) ==
  IF search # <<>> /\ ~Includes(todo.text, search)
    THEN FALSE
  ELSE IF priorityFilter # "all" /\ Get(todo, "priority") # priorityFilter
    THEN FALSE
  ELSE IF filter = "active" THEN ~todo.completed
  ELSE IF filter = "completed" THEN todo.completed
  ELSE IF filter = "today" THEN isToday(Get(todo, "dueDate"))
  ELSE IF filter = "upcoming" THEN isUpcoming(Get(todo, "dueDate"))
  ELSE IF filter = "overdue"
    THEN isOverdue(Get(todo, "dueDate"), todo.completed)
  ELSE TRUE

\* the callback of todos.filter(...)
FilterPredicate(todo) ==
  IF search # <<>> /\ ~Includes(ToLowerCase(todo.text), ToLowerCase(search))
    THEN FALSE
  ELSE IF priorityFilter # "all" /\ Get(todo, "priority") # priorityFilter
    THEN FALSE
  ELSE IF filter = "active" THEN ~todo.completed
  ELSE IF filter = "completed" THEN todo.completed
  ELSE IF filter = "today" THEN isToday(Get(todo, "dueDate"))
  ELSE IF filter = "upcoming" THEN isUpcoming(Get(todo, "dueDate"))
  ELSE IF filter = "overdue"
    THEN isOverdue(Get(todo, "dueDate"), todo.completed)
  ELSE TRUE

\* a filter that collects with unshift instead of push
RECURSIVE ArrayFilterUnshift(_, _, _)
ArrayFilterUnshift(arr, i, out) ==
  IF i > Len(arr) THEN out
  ELSE ArrayFilterUnshift(arr, i + 1,
         IF FilterPredicate(arr[i]) THEN <<arr[i]>> \o out ELSE out)

\* Array.prototype.filter: the elements that pass, in array order
RECURSIVE ArrayFilter(_, _, _)
ArrayFilter(arr, i, out) ==
  IF i > Len(arr) THEN out
  ELSE ArrayFilter(arr, i + 1,
         IF FilterPredicate(arr[i]) THEN Append(out, arr[i]) ELSE out)

filteredTodos == ArrayFilter(todos, 1, <<>>)

\* a count taken over the filtered list
completedCountFiltered == Len(SelectSeq(filteredTodos, LAMBDA t : t.completed))

\* todos.filter(t => t.completed).length
completedCount == Len(SelectSeq(todos, LAMBDA t : t.completed))

\* --- IEEE-754 double arithmetic of (completedCount / todos.length) * 100 ---
\* A positive double is a 53-bit significand, kept as five digits
\* <<top, d1, d2, d3, d4>> in base 2^13 (52 bits below the top digit),
\* scaled by a power of two.
Digit == 2 ^ 13

\* least s >= 1 with c * 2^s >= n, for 0 < c < n
RECURSIVE QuotientShift(_, _, _)
QuotientShift(c, n, s) ==
  IF c * (2 ^ s) >= n THEN s ELSE QuotientShift(c, n, s + 1)

\* add 1 at digit position k of ds, carrying towards the top digit
RECURSIVE AddAt(_, _, _)
AddAt(ds, k, amount) ==
  IF k = 1 THEN [ds EXCEPT ![1] = ds[1] + amount]
  ELSE IF ds[k] + amount >= Digit
    THEN AddAt([ds EXCEPT ![k] = ds[k] + amount - Digit], k - 1, 1)
    ELSE [ds EXCEPT ![k] = ds[k] + amount]

\* c / n for 0 < c < n: the significand of the correctly rounded quotient
\* (round to nearest, ties to even); its value is significand / 2^(52 + s)
\* with s = QuotientShift(c, n, 1)
DoubleQuotient(c, n) ==
  LET s  == QuotientShift(c, n, 1)
      r0 == c * (2 ^ s) - n
      d1 == (r0 * Digit) \div n
      r1 == (r0 * Digit) % n
      d2 == (r1 * Digit) \div n
      r2 == (r1 * Digit) % n
      d3 == (r2 * Digit) \div n
      r3 == (r2 * Digit) % n
      d4 == (r3 * Digit) \div n
      r4 == (r3 * Digit) % n
      floor == <<1, d1, d2, d3, d4>>
      up == 2 * r4 > n \/ (2 * r4 = n /\ d4 % 2 = 1)
  IN IF up THEN AddAt(floor, 5, 1) ELSE floor

\* q * 100 for a significand q: the exact product, then rounded to 53 bits
DoubleTimes100(q) ==
  LET m4 == q[5] * 100
      m3 == q[4] * 100 + (m4 \div Digit)
      m2 == q[3] * 100 + (m3 \div Digit)
      m1 == q[2] * 100 + (m2 \div Digit)
      m0 == q[1] * 100 + (m1 \div Digit)
      prod == <<m0, m1 % Digit, m2 % Digit, m3 % Digit, m4 % Digit>>
      \* the product has 52 + 7 or 52 + 8 bits; drop the lowest 6 or 7
      drop == IF m0 < 128 THEN 6 ELSE 7
      low == prod[5] % (2 ^ drop)
      kept == [prod EXCEPT ![5] = prod[5] - low]
      half == 2 ^ (drop - 1)
      up == low > half \/ (low = half /\ (prod[5] \div (2 ^ drop)) % 2 = 1)
  IN IF up THEN AddAt(kept, 5, 2 ^ drop) ELSE kept

\* Math.floor in place of Math.round
RoundedPercentFloor(c, n) == (c * 100) \div n

\* Math.round((c / n) * 100) for n > 0 and 0 <= c <= n
RoundedPercent(c, n) ==
  IF c = 0 THEN 0
  ELSE IF c = n THEN 100
  ELSE LET s == QuotientShift(c, n, 1)
           x == DoubleTimes100(DoubleQuotient(c, n))
       \* x is x[1] + (fraction below 1), over 2^s; Math.round rounds
       \* halves towards +Infinity
       IN (x[1] + 2 ^ (s - 1)) \div (2 ^ s)

percent ==
  IF Len(todos) # 0 THEN RoundedPercent(completedCount, Len(todos)) ELSE 0

\* ------------------------------------------------------------------------
\* Initial state
\* ------------------------------------------------------------------------
\* detailsTodo === null
NoTodo == [id |-> 0]

\* useState initial value of detailsFields
InitialDetailsFields ==
  [text |-> <<>>, dueDate |-> "", priority |-> "medium", notes |-> ""]

\* an async bulk handler that was never invoked; a running one holds the
\* array it iterates (the fields it reads: id and completed), the index of
\* the element whose call it awaits, and whether its page is unmounted
IdleProc == [pc |-> "idle", todos |-> <<>>, i |-> 0, orphan |-> FALSE]

\* a bulk handler that returned ("done") or whose promise rejected
\* ("rejected"); one that ran for an unmounted page leaves no trace in the
\* page that is mounted afterwards
Ended(p, how) == IF p.orphan THEN IdleProc ELSE [IdleProc EXCEPT !.pc = how]

NoDocs == [i \in {} |-> NoTodo]

\* the instant the model starts at: noon UTC of DateStrings[2]
StartInstant == 2 * HoursPerDay + 12

\* the useState initial values of TodoPage
PageInit ==
  /\ todos = <<>>
  /\ input = <<>>
  /\ dueDate = ""
  /\ priority = "medium"
  /\ filter = "all"
  /\ priorityFilter = "all"
  /\ search = <<>>
  /\ detailsTodo = NoTodo
  /\ detailsFields = InitialDetailsFields
  /\ showDaySummary = FALSE

Init ==
  /\ user = NoUser
  /\ mounted = FALSE
  /\ sub = NoUser
  /\ store = NoDocs
  /\ usedIds = {}
  /\ deleted = {}
  /\ PageInit
  /\ inflight = EmptyBag
  /\ fd = IdleProc
  /\ cc = IdleProc
  /\ lastAdd = "none"
  /\ now = StartInstant
  /\ tz = 0
  /\ route = "/login"
  /\ error = ""
  /\ authCalls = EmptyBag

\* ------------------------------------------------------------------------
\* Store calls
\* ------------------------------------------------------------------------
\* a store call awaiting settlement; `by` names the handler that awaits it,
\* `orphan` says that the page instance that issued it is unmounted, and
\* `applied` that the store has carried it out while its promise is yet to
\* resolve
Request(op, id, fields, by) ==
  [op |-> op, id |-> id, fields |-> fields, by |-> by, orphan |-> FALSE,
   applied |-> FALSE]

CanIssue == BagCardinality(inflight) < MaxInflight

Issue(r) == inflight (+) SetToBag({r})

Settled(r) == inflight (-) SetToBag({r})

\* a write that replaces the whole document (setDoc without merge)
MergeFieldsReplace(d, fields) == fields

\* updateDoc(ref, fields): the named fields are replaced, the others kept
MergeFields(d, fields) ==
  [f \in DOMAIN d \cup DOMAIN fields |->
     IF f \in DOMAIN fields THEN fields[f] ELSE d[f]]

\* the collection after a successful call
ApplyToStore(r) ==
  IF r.op = "add"
    THEN [i \in DOMAIN store \cup {r.id} |->
            IF i = r.id THEN r.fields ELSE store[i]]
  ELSE IF r.op = "update"
    THEN [store EXCEPT ![r.id] = MergeFields(store[r.id], r.fields)]
  ELSE [i \in DOMAIN store \ {r.id} |-> store[i]]

\* ------------------------------------------------------------------------
\* Snapshot query
\* ------------------------------------------------------------------------
\* the ids of S in increasing order
RECURSIVE SortedIds(_)
SortedIds(S) ==
  IF S = 1 .. Cardinality(S) THEN [k \in 1 .. Cardinality(S) |-> k]
  ELSE LET m == CHOOSE a \in S : \A b \in S : a <= b
       IN <<m>> \o SortedIds(S \ {m})

\* { id: doc.id, ...doc.data() }
LocalTodo(id, d) ==
  [f \in {"id"} \cup DOMAIN d |-> IF f = "id" THEN id ELSE d[f]]

\* query(collection(db, 'todos'), where('uid', '==', uid)): the documents
\* of that owner in document-id order, as the snapshot callback maps them
QueryTodos(st, uid) ==
  LET ids == SortedIds({i \in DOMAIN st : Get(st[i], "uid") = uid})
  IN [k \in 1 .. Len(ids) |-> LocalTodo(ids[k], st[ids[k]])]

\* ------------------------------------------------------------------------
\* Authentication and routing (App.jsx)
\* ------------------------------------------------------------------------
\* the state a later TodoPage instance starts from
PageReset ==
  /\ todos' = <<>>
  /\ input' = <<>>
  /\ dueDate' = ""
  /\ priority' = "medium"
  /\ filter' = "all"
  /\ priorityFilter' = "all"
  /\ search' = <<>>
  /\ detailsTodo' = NoTodo
  /\ detailsFields' = InitialDetailsFields
  /\ showDaySummary' = FALSE

\* the store calls of an unmounted page instance stay in flight; the state
\* setters their handlers call afterwards have no effect
Orphaned(b) ==
  LET S == BagToSet(b)
      O(r) == [r EXCEPT !.orphan = TRUE]
      N(q) == [q EXCEPT !.orphan = FALSE]
  IN [q \in {O(r) : r \in S} |->
        (IF q \in S THEN b[q] ELSE 0) + (IF N(q) \in S THEN b[N(q)] ELSE 0)]

\* onAuthStateChanged callback with a signed-in user; a session starts
\* when the calls of the previous one have settled
SignIn(u) ==
  /\ user = NoUser
  /\ inflight = EmptyBag
  /\ user' = u
  /\ UNCHANGED <<mounted, sub, storeVars, todos, formVars, filterVars,
                 detailVars, showDaySummary, inflight, fd, cc, lastAdd,
                 clockVars, loginVars>>

\* navigate('/todos') with a signed-in user: PrivateRoute renders TodoPage
\* and its effect subscribes to the user's tasks
MountTodoPage ==
  /\ user # NoUser
  /\ ~mounted
  /\ mounted' = TRUE
  /\ sub' = user
  /\ route' = "/todos"
  /\ error' = ""
  /\ authCalls' = Orphaned(authCalls)
  /\ UNCHANGED <<user, storeVars, todos, formVars, filterVars, detailVars,
                 showDaySummary, inflight, fd, cc, lastAdd, clockVars>>

\* logout: onAuthStateChanged callback with null; PrivateRoute redirects to
\* /login, TodoPage unmounts and the effect's cleanup unsubscribes
Logout ==
  /\ user # NoUser
  /\ user' = NoUser
  /\ mounted' = FALSE
  /\ sub' = NoUser
  /\ PageReset
  /\ inflight' = Orphaned(inflight)
  /\ fd' = IF fd.pc = "await" THEN [fd EXCEPT !.orphan = TRUE] ELSE IdleProc
  /\ cc' = IF cc.pc = "await" THEN [cc EXCEPT !.orphan = TRUE] ELSE IdleProc
  /\ lastAdd' = "none"
  /\ route' = IF mounted THEN "/login" ELSE route
  /\ error' = IF mounted THEN "" ELSE error
  /\ UNCHANGED <<storeVars, clockVars, authCalls>>

\* ------------------------------------------------------------------------
\* Login and Signup pages
\* ------------------------------------------------------------------------
\* err.message of a rejected sign-in / sign-up call
ErrorMessages == { "Firebase: Error (auth/invalid-credential).",
                   "Firebase: Error (auth/network-request-failed)." }

\* a pending call of the page's submit handler; alone: no other call of the
\* same page instance has been pending together with it
AuthCall(p, l) == [page |-> p, orphan |-> FALSE, alone |-> l]

LiveCalls == { a \in BagToSet(authCalls) : ~a.orphan }

\* the calls that were pending when the page submitted once more
Overlapped(b) ==
  LET S == BagToSet(b)
      F(r) == IF r.orphan THEN r ELSE [r EXCEPT !.alone = FALSE]
  IN [q \in {F(r) : r \in S} |->
        LET P == { r \in S : F(r) = q }
            RECURSIVE Sum(_)
            Sum(T) == IF T = {} THEN 0
                      ELSE LET r == CHOOSE x \in T : TRUE
                           IN b[r] + Sum(T \ {r})
        IN Sum(P)]

\* a submit handler that leaves the previous error message on the page
handleLoginKeepsError ==
  /\ route = "/login"
  /\ BagCardinality(authCalls) < MaxAttempts
  /\ authCalls' = Overlapped(authCalls)
                    (+) SetToBag({AuthCall("login", LiveCalls = {})})
  /\ UNCHANGED <<authVars, storeVars, pageVars, inflight, fd, cc, lastAdd,
                 clockVars, route, error>>

\* Login.handleLogin up to its await: setError('') and the call to
\* signInWithEmailAndPassword; the form stays enabled while the call runs
handleLogin ==
  /\ route = "/login"
  /\ BagCardinality(authCalls) < MaxAttempts
  /\ error' = ""
  /\ authCalls' = Overlapped(authCalls)
                    (+) SetToBag({AuthCall("login", LiveCalls = {})})
  /\ UNCHANGED <<authVars, storeVars, pageVars, inflight, fd, cc, lastAdd,
                 clockVars, route>>

\* Signup.handleSignup up to its await: setError('') and the call to
\* createUserWithEmailAndPassword
handleSignup ==
  /\ route = "/signup"
  /\ BagCardinality(authCalls) < MaxAttempts
  /\ error' = ""
  /\ authCalls' = Overlapped(authCalls)
                    (+) SetToBag({AuthCall("signup", LiveCalls = {})})
  /\ UNCHANGED <<authVars, storeVars, pageVars, inflight, fd, cc, lastAdd,
                 clockVars, route>>

\* <Link to="/signup"> of Login and <Link to="/login"> of Signup: the page
\* unmounts, the other one mounts with useState('') as its error
FollowLink(to) ==
  /\ route \in {"/login", "/signup"}
  /\ route # to
  /\ route' = to
  /\ error' = ""
  /\ authCalls' = Orphaned(authCalls)
  /\ UNCHANGED <<authVars, storeVars, pageVars, inflight, fd, cc, lastAdd,
                 clockVars>>

\* the awaited call resolves: Firebase has signed the user in (the
\* onAuthStateChanged callback sets user) and the handler goes on with
\* navigate('/todos'), which PrivateRoute lets through to TodoPage; the
\* navigate function works for a page that has unmounted meanwhile
AuthResolves(a) ==
  /\ BagIn(a, authCalls)
  /\ inflight = EmptyBag
  /\ user' = Owner
  /\ mounted' = TRUE
  /\ sub' = Owner
  /\ route' = "/todos"
  /\ error' = ""
  /\ authCalls' = Orphaned(authCalls (-) SetToBag({a}))
  /\ UNCHANGED <<storeVars, pageVars, inflight, fd, cc, lastAdd, clockVars>>

\* the awaited call rejects: catch (err) { setError(err.message) }; the
\* setter of an unmounted page has no effect
AuthRejects(a, msg) ==
  /\ BagIn(a, authCalls)
  /\ error' = IF a.orphan THEN error ELSE msg
  /\ authCalls' = authCalls (-) SetToBag({a})
  /\ UNCHANGED <<authVars, storeVars, pageVars, inflight, fd, cc, lastAdd,
                 clockVars, route>>

\* ------------------------------------------------------------------------
\* Snapshot delivery
\* ------------------------------------------------------------------------
\* a page that reads the collection once (getDocs after mounting) and is
\* told of no later change
SnapshotOnce ==
  /\ sub # NoUser
  /\ todos = <<>>
  /\ todos' = QueryTodos(store, sub)
  /\ UNCHANGED <<authVars, storeVars, formVars, filterVars, detailVars,
                 showDaySummary, inflight, fd, cc, lastAdd, clockVars, loginVars>>

\* the onSnapshot callback: setTodos(snapshot.docs.map(...))
Snapshot ==
  /\ sub # NoUser
  /\ todos' = QueryTodos(store, sub)
  /\ UNCHANGED <<authVars, storeVars, formVars, filterVars, detailVars,
                 showDaySummary, inflight, fd, cc, lastAdd, clockVars, loginVars>>

\* ------------------------------------------------------------------------
\* Add form
\* ------------------------------------------------------------------------
setInput(v) ==
  /\ mounted
  /\ input # v
  /\ input' = v
  /\ lastAdd' = "none"
  /\ UNCHANGED <<authVars, storeVars, todos, dueDate, priority, filterVars,
                 detailVars, showDaySummary, inflight, fd, cc, clockVars, loginVars>>

setDueDate(v) ==
  /\ mounted
  /\ dueDate # v
  /\ dueDate' = v
  /\ UNCHANGED <<authVars, storeVars, todos, input, priority, filterVars,
                 detailVars, showDaySummary, inflight, fd, cc, lastAdd,
                 clockVars, loginVars>>

setPriority(v) ==
  /\ mounted
  /\ priority # v
  /\ priority' = v
  /\ UNCHANGED <<authVars, storeVars, todos, input, dueDate, filterVars,
                 detailVars, showDaySummary, inflight, fd, cc, lastAdd,
                 clockVars, loginVars>>

\* addDoc generates a document id that was never used before
FreshIds == Ids \ usedIds

\* a document that takes the due date as the form holds it
NewTodoRawDate ==
  [text |-> input, completed |-> FALSE, uid |-> user, created |-> now,
   dueDate |-> dueDate, priority |-> priority]

\* the document handleAdd passes to addDoc
NewTodo ==
  [text |-> input, completed |-> FALSE, uid |-> user, created |-> now,
   dueDate |-> IF Truthy(dueDate) THEN dueDate ELSE Null,
   priority |-> priority]

\* a handleAdd that tests the input without trimming it
handleAddUntrimmed ==
  /\ mounted
  /\ IF input = <<>>
       THEN /\ lastAdd' = "returned"
            /\ UNCHANGED <<usedIds, inflight>>
       ELSE /\ CanIssue
            /\ \E id \in FreshIds :
                 /\ inflight' = Issue(Request("add", id, NewTodo, "add"))
                 /\ usedIds' = usedIds \cup {id}
            /\ lastAdd' = "none"
  /\ UNCHANGED <<authVars, store, deleted, todos, formVars, filterVars,
                 detailVars, showDaySummary, fd, cc, clockVars, loginVars>>

\* handleAdd up to its await
handleAdd ==
  /\ mounted
  /\ IF Trim(input) = <<>>
       THEN /\ lastAdd' = "returned"
            /\ UNCHANGED <<usedIds, inflight>>
       ELSE /\ CanIssue
            /\ \E id \in FreshIds :
                 /\ inflight' = Issue(Request("add", id, NewTodo, "add"))
                 /\ usedIds' = usedIds \cup {id}
            /\ lastAdd' = "none"
  /\ UNCHANGED <<authVars, store, deleted, todos, formVars, filterVars,
                 detailVars, showDaySummary, fd, cc, clockVars, loginVars>>

\* ------------------------------------------------------------------------
\* Filter bar and search box
\* ------------------------------------------------------------------------
\* <option> values of the status and date dropdowns, which share `filter`
StatusFilters == {"all", "active", "completed", "today", "upcoming", "overdue"}
PriorityFilters == {"all"} \cup Priorities

setFilter(v) ==
  /\ mounted
  /\ filter # v
  /\ filter' = v
  /\ UNCHANGED <<authVars, storeVars, todos, formVars, priorityFilter, search,
                 detailVars, showDaySummary, inflight, fd, cc, lastAdd,
                 clockVars, loginVars>>

setPriorityFilter(v) ==
  /\ mounted
  /\ priorityFilter # v
  /\ priorityFilter' = v
  /\ UNCHANGED <<authVars, storeVars, todos, formVars, filter, search,
                 detailVars, showDaySummary, inflight, fd, cc, lastAdd,
                 clockVars, loginVars>>

setSearch(v) ==
  /\ mounted
  /\ search # v
  /\ search' = v
  /\ UNCHANGED <<authVars, storeVars, todos, formVars, filter, priorityFilter,
                 detailVars, showDaySummary, inflight, fd, cc, lastAdd,
                 clockVars, loginVars>>

\* ------------------------------------------------------------------------
\* Single-task handlers
\* ------------------------------------------------------------------------
\* a toggle that also patches the local copy before the store answers
handleToggleOptimistic(k) ==
  /\ mounted
  /\ k \in 1 .. Len(filteredTodos)
  /\ CanIssue
  /\ LET todo == filteredTodos[k]
     IN /\ inflight' = Issue(Request("update", todo.id,
                                     [completed |-> ~todo.completed],
                                     "toggle"))
        /\ todos' = [j \in 1 .. Len(todos) |->
                       IF todos[j].id = todo.id
                         THEN [todos[j] EXCEPT !.completed = ~todo.completed]
                         ELSE todos[j]]
  /\ UNCHANGED <<authVars, storeVars, formVars, filterVars,
                 detailVars, showDaySummary, fd, cc, lastAdd, clockVars, loginVars>>

\* handleToggle(todo.id, todo.completed) of a rendered task (checkbox, or
\* swipe right in handleTouchEnd), up to its await
handleToggle(k) ==
  /\ mounted
  /\ k \in 1 .. Len(filteredTodos)
  /\ CanIssue
  /\ LET todo == filteredTodos[k]
     IN inflight' = Issue(Request("update", todo.id,
                                  [completed |-> ~todo.completed], "toggle"))
  /\ UNCHANGED <<authVars, storeVars, todos, formVars, filterVars,
                 detailVars, showDaySummary, fd, cc, lastAdd, clockVars, loginVars>>

\* handleDelete(todo.id) of a rendered task (delete button, or swipe left
\* in handleTouchEnd), up to its await
handleDelete(k) ==
  /\ mounted
  /\ k \in 1 .. Len(filteredTodos)
  /\ CanIssue
  /\ inflight' = Issue(Request("delete", filteredTodos[k].id, <<>>, "delete"))
  /\ UNCHANGED <<authVars, storeVars, todos, formVars, filterVars,
                 detailVars, showDaySummary, fd, cc, lastAdd, clockVars, loginVars>>

\* ------------------------------------------------------------------------
\* Details modal
\* ------------------------------------------------------------------------
\* a || b on strings
OrElse(a, b) == IF Truthy(a) THEN a ELSE b

openDetails(k) ==
  /\ mounted
  /\ k \in 1 .. Len(filteredTodos)
  /\ LET todo == filteredTodos[k]
     IN /\ detailsTodo' = [id |-> todo.id]
        /\ detailsFields' =
             [text |-> todo.text,
              dueDate |-> OrElse(Get(todo, "dueDate"), ""),
              priority |-> OrElse(Get(todo, "priority"), "medium"),
              notes |-> OrElse(Get(todo, "notes"), "")]
  /\ UNCHANGED <<authVars, storeVars, todos, formVars, filterVars,
                 showDaySummary, inflight, fd, cc, lastAdd, clockVars, loginVars>>

closeDetails ==
  /\ mounted
  /\ detailsTodo # NoTodo
  /\ detailsTodo' = NoTodo
  /\ UNCHANGED <<authVars, storeVars, todos, formVars, filterVars,
                 detailsFields, showDaySummary, inflight, fd, cc, lastAdd,
                 clockVars, loginVars>>

\* a details modal whose priority is a free text input
DetailsInputsFreeText(name) ==
  IF name = "text" THEN TextInputs
  ELSE IF name = "dueDate" THEN DueInputs
  ELSE IF name = "priority" THEN Priorities \cup {"", "urgent"}
  ELSE NotesInputs

\* the values an input of the details modal can take
DetailsInputs(name) ==
  IF name = "text" THEN TextInputs
  ELSE IF name = "dueDate" THEN DueInputs
  ELSE IF name = "priority" THEN Priorities
  ELSE NotesInputs

handleDetailsChange(name, value) ==
  /\ mounted
  /\ detailsTodo # NoTodo
  /\ detailsFields[name] # value
  /\ detailsFields' = [detailsFields EXCEPT ![name] = value]
  /\ UNCHANGED <<authVars, storeVars, todos, formVars, filterVars,
                 detailsTodo, showDaySummary, inflight, fd, cc, lastAdd,
                 clockVars, loginVars>>

\* a save that writes the task as the modal was opened on it, completed
\* flag included
handleDetailsSaveWhole ==
  /\ mounted
  /\ detailsTodo # NoTodo
  /\ CanIssue
  /\ inflight' = Issue(Request("update", detailsTodo.id,
                               [text |-> detailsFields.text,
                                dueDate |-> detailsFields.dueDate,
                                priority |-> detailsFields.priority,
                                notes |-> detailsFields.notes,
                                completed |-> FALSE], "save"))
  /\ UNCHANGED <<authVars, storeVars, todos, formVars, filterVars,
                 detailVars, showDaySummary, fd, cc, lastAdd, clockVars, loginVars>>

\* handleDetailsSave up to its await
handleDetailsSave ==
  /\ mounted
  /\ detailsTodo # NoTodo
  /\ CanIssue
  /\ inflight' = Issue(Request("update", detailsTodo.id,
                               [text |-> detailsFields.text,
                                dueDate |-> detailsFields.dueDate,
                                priority |-> detailsFields.priority,
                                notes |-> detailsFields.notes], "save"))
  /\ UNCHANGED <<authVars, storeVars, todos, formVars, filterVars,
                 detailVars, showDaySummary, fd, cc, lastAdd, clockVars, loginVars>>

\* handleDetailsDelete up to its await
handleDetailsDelete ==
  /\ mounted
  /\ detailsTodo # NoTodo
  /\ CanIssue
  /\ inflight' = Issue(Request("delete", detailsTodo.id, <<>>,
                               "detailsDelete"))
  /\ UNCHANGED <<authVars, storeVars, todos, formVars, filterVars,
                 detailVars, showDaySummary, fd, cc, lastAdd, clockVars, loginVars>>

\* ------------------------------------------------------------------------
\* Bulk handlers
\* ------------------------------------------------------------------------
\* a loop without the `if (!todo.completed)` test: the next index, or 0
NextOfAll(arr, from) == IF from > Len(arr) THEN 0 ELSE from

\* the next index >= from of an incomplete task of arr, or 0
RECURSIVE NextIncomplete(_, _)
NextIncomplete(arr, from) ==
  IF from > Len(arr) THEN 0
  ELSE IF ~arr[from].completed THEN from
  ELSE NextIncomplete(arr, from + 1)

\* todos.filter(t => t.completed)
RECURSIVE CompletedOf(_, _)
CompletedOf(arr, i) ==
  IF i > Len(arr) THEN <<>>
  ELSE (IF arr[i].completed THEN <<arr[i]>> ELSE <<>>)
         \o CompletedOf(arr, i + 1)

\* the fields of the captured tasks that the bulk loops read
Captured(arr) ==
  [k \in 1 .. Len(arr) |-> [id |-> arr[k].id, completed |-> arr[k].completed]]

FinishDayRequest(p) ==
  [Request("update", p.todos[p.i].id, [completed |-> TRUE], "fd")
     EXCEPT !.orphan = p.orphan]

ClearCompletedRequest(p) ==
  [Request("delete", p.todos[p.i].id, <<>>, "cc") EXCEPT !.orphan = p.orphan]

\* handleFinishDay up to its first await, or to its end when no task of the
\* local collection is incomplete
handleFinishDay ==
  /\ mounted
  /\ fd.pc # "await"
  /\ LET j == NextIncomplete(todos, 1)
     IN IF j = 0
          THEN /\ fd' = Ended(IdleProc, "done")
               /\ showDaySummary' = TRUE
               /\ UNCHANGED inflight
          ELSE /\ CanIssue
               /\ fd' = [pc |-> "await", todos |-> Captured(todos), i |-> j,
                         orphan |-> FALSE]
               /\ inflight' = Issue(FinishDayRequest(fd'))
               /\ UNCHANGED showDaySummary
  /\ UNCHANGED <<authVars, storeVars, todos, formVars, filterVars,
                 detailVars, cc, lastAdd, clockVars, loginVars>>

closeDaySummary ==
  /\ mounted
  /\ showDaySummary
  /\ showDaySummary' = FALSE
  /\ UNCHANGED <<authVars, storeVars, todos, formVars, filterVars,
                 detailVars, inflight, fd, cc, lastAdd, clockVars, loginVars>>

\* handleClearCompleted up to its first await, or to its end when no task
\* of the local collection is completed; its button is rendered with the
\* task list
handleClearCompleted ==
  /\ mounted
  /\ Len(filteredTodos) # 0
  /\ cc.pc # "await"
  /\ LET completed == Captured(CompletedOf(todos, 1))
     IN IF completed = <<>>
          THEN /\ cc' = Ended(IdleProc, "done")
               /\ UNCHANGED inflight
          ELSE /\ CanIssue
               /\ cc' = [pc |-> "await", todos |-> completed, i |-> 1,
                         orphan |-> FALSE]
               /\ inflight' = Issue(ClearCompletedRequest(cc'))
  /\ UNCHANGED <<authVars, storeVars, todos, formVars, filterVars,
                 detailVars, showDaySummary, fd, lastAdd, clockVars, loginVars>>

\* ------------------------------------------------------------------------
\* Settlement of store calls
\* ------------------------------------------------------------------------
\* a store whose update creates the document that does not exist
\* (setDoc with merge in place of updateDoc)
StoreOutcomeUpsert(r) ==
  IF r.op = "update" /\ r.id \notin DOMAIN store
    THEN [ok |-> TRUE,
          store |-> [i \in DOMAIN store \cup {r.id} |->
                       IF i = r.id THEN r.fields ELSE store[i]]]
    ELSE [ok |-> TRUE, store |-> ApplyToStore(r)]

\* what the store does with a call it accepts: addDoc creates the document,
\* updateDoc rejects when the document does not exist and merges the fields
\* otherwise, deleteDoc removes the document if it is there
StoreOutcome(r) ==
  IF r.op = "update" /\ r.id \notin DOMAIN store
    THEN [ok |-> FALSE, store |-> store]
    ELSE [ok |-> TRUE, store |-> ApplyToStore(r)]

\* the rest of the awaiting handler after its call resolved
Resume(r) ==
  /\ input' = IF r.by = "add" /\ ~r.orphan THEN <<>> ELSE input
  /\ dueDate' = IF r.by = "add" /\ ~r.orphan THEN "" ELSE dueDate
  /\ priority' = IF r.by = "add" /\ ~r.orphan THEN "medium" ELSE priority
  /\ detailsTodo' = IF r.by \in {"save", "detailsDelete"} /\ ~r.orphan
                      THEN NoTodo ELSE detailsTodo
  /\ IF r.by = "fd"
       THEN LET j == NextIncomplete(fd.todos, fd.i + 1)
            IN IF j = 0
                 THEN /\ fd' = Ended(fd, "done")
                      /\ showDaySummary' = (showDaySummary \/ ~fd.orphan)
                      /\ inflight' = Settled(r)
                 ELSE /\ fd' = [fd EXCEPT !.i = j]
                      /\ inflight' = Settled(r) (+)
                                       SetToBag({FinishDayRequest(fd')})
                      /\ UNCHANGED showDaySummary
       ELSE UNCHANGED <<fd, showDaySummary>>
  /\ IF r.by = "cc"
       THEN IF cc.i + 1 > Len(cc.todos)
              THEN /\ cc' = Ended(cc, "done")
                   /\ inflight' = Settled(r)
              ELSE /\ cc' = [cc EXCEPT !.i = cc.i + 1]
                   /\ inflight' = Settled(r) (+)
                                    SetToBag({ClearCompletedRequest(cc')})
       ELSE UNCHANGED cc
  /\ r.by \notin {"fd", "cc"} => inflight' = Settled(r)

\* the store carries out a call
StoreApplies(r) ==
  /\ BagIn(r, inflight)
  /\ ~r.applied
  /\ StoreOutcome(r).ok
  /\ store' = StoreOutcome(r).store
  /\ deleted' = IF r.op = "delete" /\ r.id \in DOMAIN store
                  THEN deleted \cup {r.id} ELSE deleted
  /\ inflight' = Settled(r) (+) SetToBag({[r EXCEPT !.applied = TRUE]})
  /\ UNCHANGED <<authVars, usedIds, todos, formVars, filterVars, detailVars,
                 showDaySummary, fd, cc, lastAdd, clockVars, loginVars>>

\* the promise of a call the store carried out resolves, and the handler
\* that awaits it runs on
WriteSucceeds(r) ==
  /\ BagIn(r, inflight)
  /\ r.applied
  /\ Resume(r)
  /\ UNCHANGED <<authVars, storeVars, todos, filterVars, detailsFields,
                 lastAdd, clockVars, loginVars>>

\* a finish-day that shows the day summary in a finally block
WriteFailsShowsSummary(r) ==
  /\ BagIn(r, inflight)
  /\ ~r.applied
  /\ inflight' = Settled(r)
  /\ fd' = IF r.by = "fd" THEN Ended(fd, "rejected") ELSE fd
  /\ cc' = IF r.by = "cc" THEN Ended(cc, "rejected") ELSE cc
  /\ showDaySummary' = (showDaySummary \/ (r.by = "fd" /\ ~r.orphan))
  /\ UNCHANGED <<authVars, storeVars, todos, formVars, filterVars,
                 detailVars, lastAdd, clockVars, loginVars>>

\* a finish-day that, when a call rejects, sets the tasks it had completed
\* back to incomplete
WriteFailsRollback(r) ==
  /\ BagIn(r, inflight)
  /\ ~r.applied
  /\ inflight' = Settled(r)
  /\ fd' = IF r.by = "fd" THEN Ended(fd, "rejected") ELSE fd
  /\ cc' = IF r.by = "cc" THEN Ended(cc, "rejected") ELSE cc
  /\ store' = IF r.by # "fd" THEN store
              ELSE [id \in DOMAIN store |->
                      IF \E k \in 1 .. fd.i - 1 :
                           fd.todos[k].id = id /\ ~fd.todos[k].completed
                        THEN [store[id] EXCEPT !.completed = FALSE]
                        ELSE store[id]]
  /\ UNCHANGED <<authVars, usedIds, deleted, todos, formVars, filterVars,
                 detailVars, showDaySummary, lastAdd, clockVars, loginVars>>

\* a store call rejects (network, permission, missing document); no handler
\* catches the rejection, so the awaiting handler ends there
WriteFails(r) ==
  /\ BagIn(r, inflight)
  /\ ~r.applied
  /\ inflight' = Settled(r)
  /\ fd' = IF r.by = "fd" THEN Ended(fd, "rejected") ELSE fd
  /\ cc' = IF r.by = "cc" THEN Ended(cc, "rejected") ELSE cc
  /\ UNCHANGED <<authVars, storeVars, todos, formVars, filterVars,
                 detailVars, showDaySummary, lastAdd, clockVars, loginVars>>

\* ------------------------------------------------------------------------
\* The page with its store: every handler, one task
\* ------------------------------------------------------------------------
Settle ==
  \/ \E r \in BagToSet(inflight) : StoreApplies(r)
  \/ \E r \in BagToSet(inflight) : WriteSucceeds(r)
  \/ \E r \in BagToSet(inflight) : WriteFails(r)

Session ==
  \/ SignIn(Owner)
  \/ MountTodoPage
  \/ Logout

Next ==
  \/ Session
  \/ Snapshot
  \/ \E v \in TypedTexts : setInput(v)
  \/ (handleAdd /\ usedIds' \subseteq 1 .. PageTasks)
  \/ \E k \in 1 .. PageTasks : handleToggle(k)
  \/ \E k \in 1 .. PageTasks : handleDelete(k)
  \/ \E k \in 1 .. PageTasks : openDetails(k)
  \/ closeDetails
  \/ \E value \in EditedTexts : handleDetailsChange("text", value)
  \/ handleDetailsSave
  \/ handleDetailsDelete
  \/ handleFinishDay
  \/ closeDaySummary
  \/ handleClearCompleted
  \/ Settle

Spec == Init /\ [][Next]_vars

\* ------------------------------------------------------------------------
\* The bulk handlers among adds, toggles and deletes: two tasks
\* ------------------------------------------------------------------------
NextBulk ==
  \/ Session
  \/ Snapshot
  \/ setInput(<<"a">>)
  \/ handleAdd
  \/ \E k \in 1 .. MaxIds : handleToggle(k)
  \/ \E k \in 1 .. MaxIds : handleDelete(k)
  \/ handleFinishDay
  \/ closeDaySummary
  \/ handleClearCompleted
  \/ Settle

SpecBulk == Init /\ [][NextBulk]_vars

\* ------------------------------------------------------------------------
\* The add form with all its inputs, for either user
\* ------------------------------------------------------------------------
NextForm ==
  \/ \E u \in Users : SignIn(u)
  \/ MountTodoPage
  \/ Logout
  \/ Snapshot
  \/ \E v \in TextInputs : setInput(v)
  \/ \E v \in DueInputs : setDueDate(v)
  \/ \E v \in Priorities : setPriority(v)
  \/ handleAdd
  \/ Settle

SpecForm == Init /\ [][NextForm]_vars

\* ------------------------------------------------------------------------
\* Filtering: a mounted page over a store that holds some of the sample
\* documents, at several instants and time zones
\* ------------------------------------------------------------------------
\* documents as the page writes them, and two that another writer left
\* (a priority in another case; no priority and no due date)
SampleDocs ==
  << [text |-> <<"M","i","l","k">>, completed |-> FALSE, uid |-> Owner,
      created |-> HoursPerDay, dueDate |-> DateStrings[1],
      priority |-> "high"],
     [text |-> <<"d","o","g">>, completed |-> TRUE, uid |-> Owner,
      created |-> HoursPerDay, dueDate |-> Null, priority |-> "low"],
     [text |-> <<"D","i","g">>, completed |-> FALSE, uid |-> Owner,
      created |-> HoursPerDay, dueDate |-> DateStrings[2],
      priority |-> "medium", notes |-> ""],
     [text |-> <<"d","o","g"," ","m","i","l","k">>, completed |-> TRUE,
      uid |-> Owner, created |-> HoursPerDay, dueDate |-> DateStrings[3],
      priority |-> "Medium"],
     [text |-> <<"i">>, completed |-> FALSE, uid |-> Owner,
      created |-> HoursPerDay, dueDate |-> "", notes |-> "n"] >>

SearchInputs == { <<>>, <<"D","O","G">>, <<"i">> }

\* midnight UTC and noon UTC of DateStrings[2]
FilterInstants == { 2 * HoursPerDay, StartInstant }
FilterZones == { -5, 0, 2 }

\* a signed-in user on a freshly mounted page
MountedInit ==
  /\ user = Owner
  /\ mounted = TRUE
  /\ sub = Owner
  /\ PageInit
  /\ inflight = EmptyBag
  /\ fd = IdleProc
  /\ cc = IdleProc
  /\ lastAdd = "none"
  /\ deleted = {}
  /\ route = "/todos"
  /\ error = ""
  /\ authCalls = EmptyBag

InitFilter ==
  /\ MountedInit
  /\ \E S \in SUBSET DOMAIN SampleDocs :
       /\ store = [i \in S |-> SampleDocs[i]]
       /\ usedIds = S
  /\ now \in FilterInstants
  /\ tz \in FilterZones

NextFilter ==
  \/ Snapshot
  \/ \E v \in StatusFilters : setFilter(v)
  \/ \E v \in PriorityFilters : setPriorityFilter(v)
  \/ \E v \in SearchInputs : setSearch(v)

SpecFilter == InitFilter /\ [][NextFilter]_vars

\* ------------------------------------------------------------------------
\* Progress: a mounted page over a store that holds n tasks of the user,
\* c of them completed (none, one, half, all but one, or all of them)
\* ------------------------------------------------------------------------
\* largest collection examined
MaxTotal == 201

ProgressDocs(n, c) ==
  [k \in 1 .. n |->
     [text |-> <<"a">>, completed |-> (k <= c), uid |-> Owner,
      created |-> StartInstant, dueDate |-> Null, priority |-> "medium"]]

ProgressCounts(n) == {0, 1, n \div 2, n - 1, n} \cap (0 .. n)

InitProgress ==
  /\ MountedInit
  /\ \E n \in 0 .. MaxTotal : \E c \in ProgressCounts(n) :
       /\ store = ProgressDocs(n, c)
       /\ usedIds = 1 .. n
  /\ now = StartInstant
  /\ tz = 0

NextProgress == Snapshot

SpecProgress == InitProgress /\ [][NextProgress]_vars

\* ------------------------------------------------------------------------
\* The clock: a mounted page over the sample documents while the hours
\* pass, in every time zone
\* ------------------------------------------------------------------------
\* last hour examined: midnight UTC of the day after DateStrings[3]
LastHour == 96

\* UTC offsets in use, in whole hours (UTC-12 .. UTC+14)
ClockZones == -12 .. 14

\* time passes: the next render reads a later new Date()
Tick ==
  /\ now < LastHour
  /\ now' = now + 1
  /\ UNCHANGED <<authVars, storeVars, todos, formVars, filterVars,
                 detailVars, showDaySummary, inflight, fd, cc, lastAdd, tz,
                 loginVars>>

InitClock ==
  /\ MountedInit
  /\ store = [i \in DOMAIN SampleDocs |-> SampleDocs[i]]
  /\ usedIds = DOMAIN SampleDocs
  /\ now = 0
  /\ tz \in ClockZones

NextClock ==
  \/ Tick
  \/ Snapshot
  \/ \E v \in StatusFilters : setFilter(v)

SpecClock == InitClock /\ [][NextClock]_vars

\* ------------------------------------------------------------------------
\* Rounding: a mounted page over a store that holds n tasks of the user,
\* any number of them completed
\* ------------------------------------------------------------------------
\* largest collection examined with every count of completed tasks
MaxRounded == 40

InitRounding ==
  /\ MountedInit
  /\ \E n \in 1 .. MaxRounded : \E c \in 0 .. n :
       /\ store = ProgressDocs(n, c)
       /\ usedIds = 1 .. n
  /\ now = StartInstant
  /\ tz = 0

NextRounding == Snapshot

SpecRounding == InitRounding /\ [][NextRounding]_vars

\* ------------------------------------------------------------------------
\* The subscription: tasks that are added, toggled and deleted; the
\* listener is told of every change of the query's result, so a snapshot
\* that would change the local copy is eventually delivered
\* ------------------------------------------------------------------------
NextLive ==
  \/ Session
  \/ Snapshot
  \/ setInput(<<"a">>)
  \/ handleAdd
  \/ \E k \in 1 .. MaxIds : handleToggle(k)
  \/ \E k \in 1 .. MaxIds : handleDelete(k)
  \/ Settle

SpecLive == Init /\ [][NextLive]_vars /\ WF_vars(Snapshot)

\* ------------------------------------------------------------------------
\* Priorities: one task, added with a priority chosen in the add form and
\* edited in the details modal
\* ------------------------------------------------------------------------
NextDetails ==
  \/ Session
  \/ Snapshot
  \/ setInput(<<"a">>)
  \/ \E v \in Priorities : setPriority(v)
  \/ (handleAdd /\ usedIds' \subseteq 1 .. PageTasks)
  \/ \E k \in 1 .. PageTasks : openDetails(k)
  \/ closeDetails
  \/ \E name \in {"priority", "dueDate"} :
       \E value \in DetailsInputs(name) : handleDetailsChange(name, value)
  \/ handleDetailsSave
  \/ Settle

SpecDetails == Init /\ [][NextDetails]_vars

\* ------------------------------------------------------------------------
\* Editing: two tasks that are toggled while the details modal is open
\* on the first of them
\* ------------------------------------------------------------------------
NextEdit ==
  \/ Session
  \/ Snapshot
  \/ setInput(<<"a">>)
  \/ handleAdd
  \/ \E k \in 1 .. MaxIds : handleToggle(k)
  \/ openDetails(1)
  \/ handleDetailsChange("text", <<>>)
  \/ handleDetailsSave
  \/ Settle

SpecEdit == Init /\ [][NextEdit]_vars

\* --- the Login and Signup pages, their links, the auth calls and logout
AuthSettles ==
  \E a \in BagToSet(authCalls) :
    \/ AuthResolves(a)
    \/ \E msg \in ErrorMessages : AuthRejects(a, msg)

NextLogin ==
  \/ handleLogin
  \/ handleSignup
  \/ FollowLink("/signup")
  \/ FollowLink("/login")
  \/ AuthSettles
  \/ Logout

SpecLogin == Init /\ [][NextLogin]_vars

\* ========================================================================
\* Properties
\* ========================================================================
RECURSIVE IsSubsequence(_, _)
IsSubsequence(a, b) ==
  IF a = <<>> THEN TRUE
  ELSE IF b = <<>> THEN FALSE
  ELSE IF Head(a) = Head(b) THEN IsSubsequence(Tail(a), Tail(b))
  ELSE IsSubsequence(a, Tail(b))

\* number of copies of request r in bag b
Copies(r, b) == IF BagIn(r, b) THEN b[r] ELSE 0

\* this step issues store call r
Issues(r) == ~r.applied /\ Copies(r, inflight') > Copies(r, inflight)

\* C1: the filtered list is a subsequence of the local task collection:
\* its elements are elements of the collection, none more often than
\* there, in the collection's order.
FilteredIsSubsequence == IsSubsequence(filteredTodos, todos)

\* a filter state that keeps two tasks and drops others
FilterKeepsSome ==
  /\ Len(filteredTodos) >= 2
  /\ Len(filteredTodos) < Len(todos)
  /\ search # <<>>

\* C2 as stated: percent is 0 for the empty collection, 100 when every
\* task is completed, and within 1..99 when some but not all tasks are
\* completed, whatever the size of the collection.
PercentInRangeAnySize ==
  /\ Len(todos) = 0 => percent = 0
  /\ (Len(todos) > 0 /\ completedCount = Len(todos)) => percent = 100
  /\ (0 < completedCount /\ completedCount < Len(todos))
       => percent \in 1 .. 99

\* C2 amended: the same for collections of at most 199 tasks, and there
\* for every number of completed tasks between 1 and the size less one.
PercentInRangeUpTo199 ==
  /\ Len(todos) = 0 => percent = 0
  /\ (Len(todos) > 0 /\ completedCount = Len(todos)) => percent = 100
  /\ Len(todos) <= 199 =>
       \A c \in 1 .. Len(todos) - 1 : RoundedPercent(c, Len(todos)) \in 1 .. 99
  /\ (Len(todos) <= 199 /\ 0 < completedCount /\ completedCount < Len(todos))
       => percent \in 1 .. 99

\* 198 of 199 tasks completed: shown as 99
PercentNearlyAll ==
  /\ Len(todos) = 199
  /\ completedCount = 198
  /\ percent = 99

\* C3: whenever the day summary becomes visible, the summary it shows has
\* completedCount equal to the total.
SummaryShowsAllCompleted ==
  [][(~showDaySummary /\ showDaySummary') => completedCount' = Len(todos')]_vars

\* C4: when an update of finish-day fails, every incomplete task of the
\* collection has been attempted: the invocation does not end on the failed
\* call with incomplete tasks after it that no update was issued for.
FinishDayAttemptsEveryTask ==
  [][(fd.pc = "await" /\ fd'.pc = "rejected")
       => NextIncomplete(fd.todos, fd.i + 1) = 0]_vars

\* C5: when the store carries out the update of a toggle, the stored
\* completed value becomes the negation of the value stored before.
ToggleFlipsStoredValue ==
  [][\A r \in BagToSet(inflight) :
       (r.by = "toggle" /\ StoreApplies(r))
         => store'[r.id].completed = ~store[r.id].completed]_vars

\* C6: a document whose delete the store has carried out is never in the
\* store again, and no snapshot delivered afterwards contains it.
DeleteIsTerminal ==
  [][\A id \in deleted' :
       /\ id \notin DOMAIN store'
       /\ todos' # todos => \A k \in 1 .. Len(todos') : todos'[k].id # id]_vars

\* an update of a deleted document is in flight
UpdateOfDeletedInFlight ==
  \E r \in BagToSet(inflight) :
    r.op = "update" /\ ~r.applied /\ r.id \in deleted

\* C7: the local collection changes only by being replaced as a whole with
\* the owner's documents as the store holds them at that moment (a snapshot
\* delivery), or by the page being unmounted, which discards it.
LocalCopyOnlyReplaced ==
  [][todos' # todos =>
       \/ sub # NoUser /\ todos' = QueryTodos(store, sub)
       \/ ~mounted' /\ todos' = <<>>]_vars

\* the page shows an earlier snapshot while a toggle it issued has changed
\* the store
LocalCopyBehindStore ==
  /\ mounted
  /\ todos # <<>>
  /\ DOMAIN store # {}
  /\ todos # QueryTodos(store, sub)
  /\ \E r \in BagToSet(inflight) : r.by = "toggle" /\ r.applied

\* C8: every stored task has a non-empty text.
StoredTextNonEmpty == \A id \in DOMAIN store : store[id].text # <<>>

\* C9: an add whose text is empty or only whitespace issues no store call
\* and leaves the store and the three form fields as they are; no create of
\* a blank text is ever in flight.
BlankAddRejected ==
  /\ [](\A r \in BagToSet(inflight) :
          r.op = "add" => Trim(r.fields.text) # <<>>)
  /\ [][(Trim(input) = <<>> /\ handleAdd)
          => /\ inflight' = inflight
             /\ store' = store
             /\ usedIds' = usedIds
             /\ input' = input
             /\ dueDate' = dueDate
             /\ priority' = priority]_vars

\* handleAdd has returned early on a whitespace text, with a due date and a
\* priority chosen, and nothing was sent
BlankAddReturned ==
  /\ lastAdd = "returned"
  /\ input = <<" ">>
  /\ dueDate = DateStrings[2]
  /\ priority = "high"
  /\ inflight = EmptyBag
  /\ store = NoDocs

\* C10: while no user is signed in, the page is not rendered, no
\* subscription is active and no store call is issued.
NoOperationWhileSignedOut ==
  /\ [](user = NoUser => ~mounted /\ sub = NoUser)
  /\ [][user = NoUser => \A r \in BagToSet(inflight') : ~Issues(r)]_vars

\* the values a task's dueDate can have: a date string, '', null, or absent
DueValues == {DateStrings[i] : i \in 1 .. Len(DateStrings)}
               \cup {"", Null, Undefined}

\* C11: when a store call of the mounted page fails, the failure is recorded
\* in state that the page renders, and the step issues no store call (the
\* failed write is not retried).
FailureSurfaced ==
  [][\A r \in BagToSet(inflight) :
       (WriteFails(r) /\ ~r.orphan)
         => /\ pageVars' # pageVars
            /\ \A q \in BagToSet(inflight') : ~Issues(q)]_vars

\* C12: at every instant and in every time zone, no due date is both
\* today and upcoming.
NeverTodayAndUpcoming ==
  \A d \in DueValues : ~(isToday(d) /\ isUpcoming(d))

\* C13: at every instant and in every time zone, no due date is both today
\* and overdue for an incomplete task.
NeverTodayAndOverdue ==
  \A d \in DueValues : ~(isToday(d) /\ isOverdue(d, FALSE))

\* the overdue filter leaves out an incomplete task whose due instant has
\* passed on the local day that is today
TodayPastNotListed ==
  /\ filter = "overdue"
  /\ \E k \in 1 .. Len(todos) :
       /\ ~todos[k].completed
       /\ Truthy(Get(todos[k], "dueDate"))
       /\ ParseDate(todos[k].dueDate) < now
       /\ isToday(todos[k].dueDate)
       /\ \A j \in 1 .. Len(filteredTodos) : filteredTodos[j].id # todos[k].id

\* C14: isOverdue is false for a completed task whatever its due date, and
\* false without a due date; the overdue filter lists only incomplete tasks
\* that have a due date.
CompletedNeverOverdue ==
  /\ \A d \in DueValues : ~isOverdue(d, TRUE)
  /\ \A d \in {"", Null, Undefined} : \A c \in BOOLEAN : ~isOverdue(d, c)
  /\ filter = "overdue" =>
       \A k \in 1 .. Len(filteredTodos) :
         /\ ~filteredTodos[k].completed
         /\ Truthy(Get(filteredTodos[k], "dueDate"))

\* the overdue filter lists a task and leaves out a completed one whose due
\* day has passed
CompletedPastNotListed ==
  /\ filter = "overdue"
  /\ filteredTodos # <<>>
  /\ \E k \in 1 .. Len(todos) :
       /\ todos[k].completed
       /\ Truthy(Get(todos[k], "dueDate"))
       /\ ParseDate(todos[k].dueDate) < now
       /\ ~isToday(todos[k].dueDate)

\* the number of completed tasks of the local collection
CompletedTasks == Cardinality({k \in 1 .. Len(todos) : todos[k].completed})

\* C15: after every step the progress values are those of the full local
\* collection, and a change of the status filter, the priority filter or the search text
\* leaves completedCount, the total and percent as they are.
ProgressIgnoresFilter ==
  [][/\ completedCount' = CompletedTasks'
     /\ (filterVars' # filterVars /\ todos' = todos)
          => /\ completedCount' = completedCount
             /\ Len(todos') = Len(todos)
             /\ percent' = percent]_vars

\* a filter state that hides completed tasks of the collection
FilterHidesCompleted ==
  /\ filterVars # <<"all", "all", <<>> >>
  /\ Len(filteredTodos) < Len(todos)
  /\ Cardinality({k \in 1 .. Len(filteredTodos) : filteredTodos[k].completed})
       < completedCount

\* C16: for a non-empty collection, percent is completedCount * 100 / total
\* rounded to the nearest integer, halves up, where completedCount is the
\* number of completed tasks and the total is the collection's length.
PercentRoundsHalfUp ==
  Len(todos) # 0 =>
    /\ completedCount = CompletedTasks
    /\ percent = (200 * completedCount + Len(todos)) \div (2 * Len(todos))

\* C17: an invocation of finish-day iterates the local collection as it is
\* at the click; every update it issues sets completed to true on the next
\* task of that collection that is incomplete there, the tasks it passes
\* over are completed ones, and when its calls succeed it returns only
\* after the last incomplete task; on a collection without incomplete
\* tasks it issues nothing.
FinishDayUpdatesIncomplete ==
  [][/\ (fd.pc # "await" /\ fd'.pc = "await") => fd'.todos = Captured(todos)
     /\ (fd.pc = "await" /\ fd'.pc = "await") => fd'.todos = fd.todos
     /\ \A r \in BagToSet(inflight') :
          (r.by = "fd" /\ Issues(r) /\ user' = user)
            => LET before == IF fd.pc = "await" THEN fd.i ELSE 0
               IN /\ r.op = "update"
                  /\ r.fields = [completed |-> TRUE]
                  /\ fd'.pc = "await"
                  /\ fd'.i \in before + 1 .. Len(fd'.todos)
                  /\ r.id = fd'.todos[fd'.i].id
                  /\ ~fd'.todos[fd'.i].completed
                  /\ \A k \in before + 1 .. fd'.i - 1 : fd'.todos[k].completed
     /\ \A r \in BagToSet(inflight) :
          (r.by = "fd" /\ WriteSucceeds(r) /\ fd'.pc # "await")
            => \A k \in fd.i + 1 .. Len(fd.todos) : fd.todos[k].completed
     /\ (handleFinishDay /\ \A k \in 1 .. Len(todos) : todos[k].completed)
          => inflight' = inflight]_vars

\* finish-day has completed the first of two incomplete tasks and awaits
\* the update of the second
FinishDaySecondUpdate ==
  /\ fd.pc = "await"
  /\ Len(fd.todos) = 2
  /\ fd.i = 2
  /\ ~fd.todos[1].completed
  /\ fd.todos[1].id \in DOMAIN store
  /\ store[fd.todos[1].id].completed
  /\ BagIn(FinishDayRequest(fd), inflight)

\* C18: when an update of finish-day fails, the handler ends there: the
\* store is left as it is and no further call of the handler is issued or
\* in flight.
NoRollbackAfterFailure ==
  [][\A r \in BagToSet(inflight) :
       (r.by = "fd" /\ WriteFails(r))
         => /\ store' = store
            /\ fd'.pc # "await"
            /\ \A q \in BagToSet(inflight') : q.by # "fd"]_vars

\* finish-day was rejected on the second of two tasks: the first one is
\* completed in the store and the second one is not
FinishDayHalfDone ==
  /\ fd.pc = "rejected"
  /\ inflight = EmptyBag
  /\ Len(todos) = 2
  /\ \A k \in 1 .. 2 : ~todos[k].completed
  /\ DOMAIN store = {todos[1].id, todos[2].id}
  /\ store[todos[1].id].completed
  /\ ~store[todos[2].id].completed

\* C19: if from some point on the page stays subscribed and the store no
\* longer changes, then from some point on the local collection equals the
\* owner's documents as the store holds them.
LocalCopyConverges ==
  \/ []<>(sub = NoUser)
  \/ []<><<store' # store>>_vars
  \/ <>[](todos = QueryTodos(store, sub))

\* every call has settled and the page still shows an earlier snapshot
LocalCopyAwaitsSnapshot ==
  /\ sub # NoUser
  /\ inflight = EmptyBag
  /\ todos # <<>>
  /\ todos # QueryTodos(store, sub)

\* C20: every stored task has a priority, and it is one of high, medium
\* and low.
StoredPriorityValid ==
  \A id \in DOMAIN store : Get(store[id], "priority") \in Priorities

\* a task added with priority high has been saved from the details modal
\* with priority low
PrioritySavedFromDetails ==
  /\ Len(todos) = 1
  /\ todos[1].priority = "high"
  /\ \E r \in BagToSet(inflight) :
       /\ r.by = "save"
       /\ r.applied
       /\ r.id = todos[1].id
       /\ r.fields.priority = "low"
       /\ r.id \in DOMAIN store
       /\ store[r.id].priority = "low"

\* C21: no step changes the owner id or the creation time of a stored
\* task, and no update that is issued names either field.
OwnerAndCreatedImmutable ==
  [][/\ \A id \in DOMAIN store \cap DOMAIN store' :
          /\ Get(store'[id], "uid") = Get(store[id], "uid")
          /\ Get(store'[id], "created") = Get(store[id], "created")
     /\ \A r \in BagToSet(inflight') :
          r.op = "update" => DOMAIN r.fields \cap {"uid", "created"} = {}]_vars

\* a task that was completed has been saved from the details modal and
\* still carries its owner and creation time
SavedTaskKeepsOwner ==
  \E r \in BagToSet(inflight) :
    /\ r.by = "save"
    /\ r.applied
    /\ r.id \in DOMAIN store
    /\ store[r.id].completed
    /\ store[r.id].uid = Owner
    /\ store[r.id].created = StartInstant

\* C22: when the store carries out the update of a details save, the
\* completed flag of the saved task and every other document stay as they
\* are, and the update names text, dueDate, priority and notes only.
SaveKeepsCompleted ==
  [][\A r \in BagToSet(inflight) :
       (r.by = "save" /\ StoreApplies(r))
         => /\ DOMAIN r.fields = {"text", "dueDate", "priority", "notes"}
            /\ DOMAIN store' = DOMAIN store
            /\ store'[r.id].completed = store[r.id].completed
            /\ \A id \in DOMAIN store \ {r.id} : store'[id] = store[id]]_vars

\* a save opened on an incomplete task has been carried out on the task
\* after it was completed, next to a second task, and changed its text
SaveOnCompletedTask ==
  /\ Cardinality(DOMAIN store) = 2
  /\ \E r \in BagToSet(inflight) :
       /\ r.by = "save"
       /\ r.applied
       /\ r.id \in DOMAIN store
       /\ store[r.id].completed
       /\ store[r.id].text = <<>>
       /\ \E k \in 1 .. Len(todos) : todos[k].id = r.id /\ ~todos[k].completed

\* C23: the document of every add that is issued has completed = false,
\* the signed-in user's id as owner, the priority selected in the form and
\* the chosen due date, or null when none is chosen; the store holds the
\* document as it was issued; and when the call resolves, the form of the
\* page that issued it is reset to empty text, no due date and medium.
AddStoresFormValues ==
  [][/\ \A r \in BagToSet(inflight') :
          (r.by = "add" /\ Issues(r) /\ user' = user)
            => /\ r.op = "add"
               /\ r.fields.completed = FALSE
               /\ user # NoUser
               /\ r.fields.uid = user
               /\ r.fields.priority = priority
               /\ r.fields.priority \in Priorities
               /\ r.fields.dueDate = (IF dueDate = "" THEN Null ELSE dueDate)
     /\ \A r \in BagToSet(inflight) :
          /\ (r.by = "add" /\ StoreApplies(r)) => store'[r.id] = r.fields
          /\ (r.by = "add" /\ WriteSucceeds(r) /\ ~r.orphan)
               => /\ input' = <<>>
                  /\ dueDate' = ""
                  /\ priority' = "medium"]_vars

\* the second user has added a task of high priority without a due date,
\* and the form is reset
AddedWithoutDueDate ==
  /\ user = "u2"
  /\ mounted
  /\ inflight = EmptyBag
  /\ formVars = << <<>>, "", "medium">>
  /\ \E id \in DOMAIN store :
       /\ store[id].uid = "u2"
       /\ store[id].priority = "high"
       /\ store[id].dueDate = Null
       /\ ~store[id].completed

\* C24: with status filter 'all', priority filter 'all' and empty search
\* text, the filtered list is the local collection itself.
FilterAllIsIdentity ==
  filterVars = <<"all", "all", <<>> >> => filteredTodos = todos

\* every filter is off over the five sample tasks
AllFiltersOff ==
  /\ filterVars = <<"all", "all", <<>> >>
  /\ Len(todos) = Len(SampleDocs)
  /\ Len(filteredTodos) = Len(SampleDocs)

\* C25: with a priority filter other than 'all', every listed task has
\* exactly that priority, and with the other filters off the list is the
\* tasks of exactly that priority; with 'all' no task is left out for its
\* priority.
PriorityFilterExact ==
  /\ \A k \in 1 .. Len(filteredTodos) :
       priorityFilter # "all"
         => Get(filteredTodos[k], "priority") = priorityFilter
  /\ (filter = "all" /\ search = <<>>)
       => filteredTodos =
            SelectSeq(todos, LAMBDA t : \/ priorityFilter = "all"
                                        \/ Get(t, "priority") = priorityFilter)

\* priority filter 'medium' lists one task and leaves out one of priority
\* 'Medium' and one without a priority
PriorityFilterSkipsOtherCase ==
  /\ filterVars = <<"all", "medium", <<>> >>
  /\ Len(filteredTodos) = 1
  /\ \E k \in 1 .. Len(todos) : Get(todos[k], "priority") = "Medium"
  /\ \E k \in 1 .. Len(todos) : Get(todos[k], "priority") = Undefined

\* b occurs in a as a contiguous subsequence
IsSubstring(a, b) ==
  \E i \in 1 .. Len(a) + 1 : \E j \in i - 1 .. Len(a) : SubSeq(a, i, j) = b

\* C26: with a non-empty search text every listed task's text contains it,
\* both in lower case, and with the other filters off the list is exactly
\* the tasks whose text does; with an empty search text no task is left
\* out by the search.
SearchMatchesSubstring ==
  /\ \A k \in 1 .. Len(filteredTodos) :
       search # <<>>
         => IsSubstring(ToLowerCase(filteredTodos[k].text), ToLowerCase(search))
  /\ (filter = "all" /\ priorityFilter = "all")
       => filteredTodos =
            SelectSeq(todos,
                      LAMBDA t : \/ search = <<>>
                                 \/ IsSubstring(ToLowerCase(t.text),
                                                ToLowerCase(search)))

\* the search text DOG lists the two tasks whose text contains dog in
\* lower case
SearchFindsOtherCase ==
  /\ filter = "all"
  /\ priorityFilter = "all"
  /\ search = <<"D", "O", "G">>
  /\ Len(todos) = Len(SampleDocs)
  /\ Len(filteredTodos) = 2

\* C27: clear-completed iterates the tasks that are completed in the local
\* collection at the click, and every delete of it that the store carries
\* out removes a task whose stored completed value is true at that moment.
ClearDeletesOnlyCompleted ==
  [][/\ (cc.pc # "await" /\ cc'.pc = "await")
          => cc'.todos = Captured(CompletedOf(todos, 1))
     /\ \A r \in BagToSet(inflight) :
          (r.by = "cc" /\ StoreApplies(r) /\ r.id \in DOMAIN store)
            => store[r.id].completed]_vars

\* C28: at most one update of finish-day is in flight; the invocation moves
\* on to a later task of its collection only when the update it awaits has
\* resolved; the day summary becomes visible only when the last update of
\* an invocation resolves (or at once when there is nothing to update);
\* and when an update fails, the invocation ends without a further update
\* and without showing the summary.
FinishDaySequential ==
  [][/\ LET S == {r \in BagToSet(inflight') : r.by = "fd"}
        IN Cardinality(S) <= 1 /\ \A r \in S : inflight'[r] = 1
     /\ (fd.pc = "await" /\ fd'.pc = "await" /\ fd' # fd /\ user' = user)
          => /\ fd'.i > fd.i
             /\ \E r \in BagToSet(inflight) : r.by = "fd" /\ WriteSucceeds(r)
     /\ (~showDaySummary /\ showDaySummary')
          => \/ /\ handleFinishDay
                /\ \A k \in 1 .. Len(todos) : todos[k].completed
             \/ \E r \in BagToSet(inflight) :
                  /\ r.by = "fd"
                  /\ WriteSucceeds(r)
                  /\ \A k \in fd.i + 1 .. Len(fd.todos) : fd.todos[k].completed
     /\ \A r \in BagToSet(inflight) :
          (r.by = "fd" /\ WriteFails(r))
            => /\ showDaySummary' = showDaySummary
               /\ fd'.pc # "await"
               /\ \A q \in BagToSet(inflight') : q.by # "fd"]_vars

\* the day summary is shown after finish-day has updated both tasks of
\* the collection it was clicked on
DaySummaryAfterTwoUpdates ==
  /\ showDaySummary
  /\ fd.pc = "done"
  /\ inflight = EmptyBag
  /\ Len(todos) = 2
  /\ \A k \in 1 .. 2 : ~todos[k].completed
  /\ \A k \in 1 .. 2 : todos[k].id \in DOMAIN store /\ store[todos[k].id].completed

\* C29: a details save of fields that are as openDetails filled them, for
\* a task whose local copy is the stored document, issues an update that
\* leaves every field it names as the store holds it.
SaveWithoutEditIsNoOp ==
  [][(/\ handleDetailsSave
      /\ detailsTodo.id \in DOMAIN store
      /\ \E k \in 1 .. Len(todos) :
           /\ todos[k] = LocalTodo(detailsTodo.id, store[detailsTodo.id])
           /\ detailsFields =
                [text |-> todos[k].text,
                 dueDate |-> OrElse(Get(todos[k], "dueDate"), ""),
                 priority |-> OrElse(Get(todos[k], "priority"), "medium"),
                 notes |-> OrElse(Get(todos[k], "notes"), "")])
       => \A r \in BagToSet(inflight') :
            Issues(r)
              => \A f \in DOMAIN r.fields :
                   r.fields[f] = Get(store[detailsTodo.id], f)]_vars

\* C30 (as stated): a login or signup attempt clears the previous error
\* message when it starts; when its auth call fails the error message becomes
\* the failure's message and the page stays where it is; when it succeeds the
\* page navigates to /todos with the error message still empty; and the route
\* becomes /todos only in the step of a successful auth call.
AuthAttemptErrorStaysEmpty ==
  [][ /\ (handleLogin \/ handleSignup) => error' = ""
      /\ \A a \in LiveCalls :
           /\ \A msg \in ErrorMessages :
                AuthRejects(a, msg) => (error' = msg /\ route' = route)
           /\ AuthResolves(a) => (route' = "/todos" /\ error = "")
      /\ (route # "/todos" /\ route' = "/todos")
           => \E a \in BagToSet(authCalls) : AuthResolves(a)
    ]_vars

\* C30 (amended): as above, but the error message is still empty at the
\* navigation of a successful attempt only when no other attempt of the same
\* page was pending together with it.
AuthAttemptErrorAndNavigation ==
  [][ /\ (handleLogin \/ handleSignup) => error' = ""
      /\ \A a \in LiveCalls :
           /\ \A msg \in ErrorMessages :
                AuthRejects(a, msg) => (error' = msg /\ route' = route)
           /\ AuthResolves(a) => (route' = "/todos" /\ (a.alone => error = ""))
      /\ (route # "/todos" /\ route' = "/todos")
           => \E a \in BagToSet(authCalls) : AuthResolves(a)
    ]_vars

\* a failed login whose message is on the Login page, nobody signed in
LoginFailureShown ==
  /\ route = "/login"
  /\ error \in ErrorMessages
  /\ user = NoUser
  /\ authCalls = EmptyBag

====
